---- MODULE Spec2Model ----
(***************************************************************************)
(* Model of dev/monitor_windows_internals.py: a Textual application whose  *)
(* timer callback update_stats samples psutil, ranks the processes by      *)
(* resident memory and replaces the two reactive texts of the display      *)
(* widget.                                                                 *)
(*                                                                         *)
(* A text is a sequence of lines; every line is a record with a `kind`     *)
(* field and the values the f-string interpolates.  Rich markup tags and   *)
(* the padding of numeric cells are layout and are left out; the padding   *)
(* of the name cell is kept.  The empty string is the empty sequence.      *)
(*                                                                         *)
(* psutil and Textual are the environment.  psutil.process_iter(attrs)     *)
(* returns processes whose `info` dict is already filled: an attribute     *)
(* whose read was denied is None, a process that vanished while its        *)
(* attributes were read is not returned at all.  Textual runs every        *)
(* callback (mount handler, timer callback, key binding, repaint) on one   *)
(* event loop, a callback is left only at an await that suspends, an       *)
(* exception escaping a callback ends the application, and App.run()       *)
(* returns normally in either case.                                        *)
(***************************************************************************)
EXTENDS Integers, Sequences, FiniteSets, TLC

VARIABLES
    state,        \* lifecycle of the application: Starting, Running, Stopped
    error,        \* the exception that escaped a callback, or NoError
    exit_status,  \* status of the process once main() has returned, else NoExit
    timer,        \* TRUE once set_interval(2, update_stats) is registered
    elapsed,      \* seconds since the interval timer was set or last fired
    timerTicks,   \* number of timer-driven update_stats calls started
    updates,      \* number of update_stats calls that ran to their last line
    pc,           \* position of the running update_stats: "idle" or "table"
    pending,      \* key waiting in the application's message queue, or NoKey
    os,           \* what psutil reports at this instant
    snapshot,     \* locals of the latest update_stats call: what it sampled
    stats,        \* SystemStatsWidget.stats
    table,        \* SystemStatsWidget.table
    table_lines,  \* local table_lines of the running update_stats
    screen,       \* the text the latest render() returned
    since_key     \* timer ticks started since the pending key was queued

vars == <<state, error, exit_status, timer, elapsed, timerTicks, updates, pc,
          pending, os, snapshot, stats, table, table_lines, screen, since_key>>

(***************************************************************************)
(* Bounds of the model.                                                    *)
(***************************************************************************)
MaxProcs == 6      \* longest enumeration in the ranking inputs
MaxNameLen == 30   \* longest process name in the name inputs
MaxTicks == 2      \* timer ticks followed in one behaviour

(***************************************************************************)
(* Constants of the program.                                               *)
(***************************************************************************)
Interval == 2
TopN == 5
NameWidth == 24
NameKeep == 21
MB == 1024 * 1024
GB == 1024 * 1024 * 1024

None == -1
NoneName == <<"<None>">>
NoError == "none"
NoExit == -1
NoKey == "none"
NoSnapshot == [cpu |-> None,
               mem |-> [percent |-> 0, used |-> 0, total |-> 0],
               disk |-> [percent |-> 0, used |-> 0, total |-> 0],
               procs |-> << >>]
EmptyText == << >>
Ellipsis == <<".", ".", ".">>

BINDINGS_NoQuit == [key \in {"x"} |-> "bell"]
BINDINGS == [key \in {"q"} |-> "quit"]

(***************************************************************************)
(* Ranking: sorted(process_iter(...), key=..., reverse=True).              *)
(***************************************************************************)
Key(p) == IF p.memory_info # None THEN p.memory_info ELSE 0

InsertBeforeTies(p, s) ==
    LET k == Cardinality({i \in 1..Len(s) : Key(s[i]) > Key(p)})
    IN  SubSeq(s, 1, k) \o <<p>> \o SubSeq(s, k + 1, Len(s))

\* p joins an already ranked s behind every entry whose key is not smaller:
\* entries with equal keys keep the order in which they were enumerated.
Insert(p, s) ==
    LET k == Cardinality({i \in 1..Len(s) : Key(s[i]) >= Key(p)})
    IN  SubSeq(s, 1, k) \o <<p>> \o SubSeq(s, k + 1, Len(s))

RECURSIVE sorted_plain(_)
sorted_plain(seq) ==
    IF seq = << >> THEN << >>
    ELSE LET s == sorted_plain(SubSeq(seq, 1, Len(seq) - 1))
             p == seq[Len(seq)]
             k == Cardinality({i \in 1..Len(s) : Key(s[i]) <= Key(p)})
         IN  SubSeq(s, 1, k) \o <<p>> \o SubSeq(s, k + 1, Len(s))

RECURSIVE sorted_reverse(_)
sorted_reverse(seq) ==
    IF seq = << >> THEN << >>
    ELSE Insert(seq[Len(seq)], sorted_reverse(SubSeq(seq, 1, Len(seq) - 1)))

Top(seq) == SubSeq(seq, 1, IF Len(seq) < TopN THEN Len(seq) ELSE TopN)

(***************************************************************************)
(* Formatting.                                                             *)
(***************************************************************************)
RoundDiv(bytes, unit) == (bytes + unit \div 2) \div unit

FloorDiv(bytes, unit) == bytes \div unit

display_name_keep24(nm) ==
    IF Len(nm) > NameWidth THEN SubSeq(nm, 1, NameWidth) \o Ellipsis ELSE nm

display_name(nm) ==
    IF Len(nm) > NameWidth THEN SubSeq(nm, 1, NameKeep) \o Ellipsis ELSE nm

LJust(s, width) ==
    IF Len(s) >= width THEN s ELSE s \o [i \in 1..(width - Len(s)) |-> " "]

cpu_line(o) == [kind |-> "cpu", percent |-> o.cpu]

memory_line(o) ==
    [kind |-> "memory", percent |-> o.mem.percent,
     used |-> FloorDiv(o.mem.used, MB), total |-> FloorDiv(o.mem.total, MB)]

disk_line(o) ==
    [kind |-> "disk", percent |-> o.disk.percent,
     used |-> FloorDiv(o.disk.used, GB), total |-> FloorDiv(o.disk.total, GB)]

StatsText(o) == <<cpu_line(o), memory_line(o), disk_line(o)>>

TableHead ==
    << [kind |-> "title", text |-> "Top 5 Processes by Memory Usage:"],
       [kind |-> "columns", c1 |-> "PID", c2 |-> "Name", c3 |-> "Memory (MB)"],
       [kind |-> "divider", w1 |-> 6, w2 |-> 24, w3 |-> 12] >>

Row(p) ==
    [kind |-> "row", pid |-> p.pid,
     name |-> LJust(display_name(p.name), NameWidth),
     mem_mb |-> FloorDiv(p.memory_info, MB)]

\* The body of the for loop reads proc.info, a plain dict: a None in it makes
\* the attribute access or len() raise, which the except clause (NoSuchProcess,
\* AccessDenied) does not catch.
RowError(p) ==
    IF p.memory_info = None THEN "AttributeError"
    ELSE IF p.name = NoneName THEN "TypeError"
    ELSE NoError

LoopError(top) ==
    IF \E i \in 1..Len(top) : RowError(top[i]) # NoError
    THEN RowError(top[CHOOSE i \in 1..Len(top) :
                        /\ RowError(top[i]) # NoError
                        /\ \A j \in 1..(i - 1) : RowError(top[j]) = NoError])
    ELSE NoError

Rows(top) == [i \in 1..Len(top) |-> Row(top[i])]

NewTableLinesKeepOld(old, top) ==
    (IF old = EmptyText THEN TableHead ELSE old) \o Rows(top)

NewTableLines(old, top) == TableHead \o Rows(top)

render_text(s, t) == s \o <<[kind |-> "blank"]>> \o t

(***************************************************************************)
(* What psutil can report.                                                 *)
(***************************************************************************)
Chars == <<"a", "b", "c", "d", "e", "f", "g">>

NameOfLen(n) == [i \in 1..n |-> Chars[((i - 1) % Len(Chars)) + 1]]

Proc(pid, nm, rss) == [pid |-> pid, name |-> nm, memory_info |-> rss]

Host(cpu, mem, disk, procs) ==
    [cpu |-> cpu,
     mem |-> [percent |-> mem[1], used |-> mem[2], total |-> mem[3]],
     disk |-> [percent |-> disk[1], used |-> disk[2], total |-> disk[3]],
     procs |-> procs]

\* Five processes, two of them tied, enumerated in ranked order.
HostTied ==
    Host(123, <<25, 4 * MB, 16 * MB>>, <<20, GB \div 5, GB>>,
         << Proc(1, NameOfLen(6), 500 * MB), Proc(2, NameOfLen(7), 300 * MB),
            Proc(3, NameOfLen(8), 300 * MB), Proc(4, NameOfLen(9), 100 * MB),
            Proc(5, NameOfLen(10), 50 * MB) >>)

\* Six processes enumerated out of order, one with a 30 character name.
HostSix ==
    Host(500, <<50, 8 * MB - 1, 16 * MB>>, <<99, GB - 1, GB + 5>>,
         << Proc(11, NameOfLen(4), 50 * MB), Proc(12, NameOfLen(30), 400 * MB),
            Proc(13, NameOfLen(24), 100 * MB), Proc(14, NameOfLen(25), 400 * MB),
            Proc(15, NameOfLen(5), 20 * MB + 1), Proc(16, NameOfLen(3), 300 * MB) >>)

\* Five processes, the memory of the second was denied.
HostDenied ==
    Host(7, <<75, 12 * MB + 1, 16 * MB>>, <<10, GB \div 10, GB>>,
         << Proc(21, NameOfLen(3), 200 * MB), Proc(22, NameOfLen(4), None),
            Proc(23, NameOfLen(5), 100 * MB), Proc(24, NameOfLen(6), 50 * MB),
            Proc(25, NameOfLen(7), 10 * MB) >>)

\* Seven processes, the memory of one was denied: it ranks last.
HostSeven ==
    Host(999, <<90, 15 * MB, 16 * MB>>, <<50, GB \div 2, GB>>,
         << Proc(31, NameOfLen(3), 60 * MB), Proc(32, NameOfLen(3), None),
            Proc(33, NameOfLen(3), 70 * MB), Proc(34, NameOfLen(3), 30 * MB),
            Proc(35, NameOfLen(3), 30 * MB), Proc(36, NameOfLen(3), 20 * MB),
            Proc(37, NameOfLen(3), 80 * MB) >>)

\* Two processes.
HostTwo ==
    Host(0, <<10, MB, 16 * MB>>, <<0, 0, GB>>,
         << Proc(41, NameOfLen(26), 2 * MB - 1), Proc(42, NameOfLen(2), 2 * MB) >>)

OSStates == {HostTied, HostSix, HostDenied, HostSeven, HostTwo}

LoRss == 3 * MB + 7
HiRss == 5 * MB

\* Every enumeration of up to MaxProcs processes whose memory is one of two
\* sizes or was denied.
RankInputs ==
    { Host(1, <<25, 4 * MB, 16 * MB>>, <<20, GB \div 5, GB>>,
           [i \in 1..Len(m) |-> Proc(i, NameOfLen(3), m[i])]) :
        m \in UNION {[1..n -> {None, LoRss, HiRss}] : n \in 0..MaxProcs} }

\* One process whose name has any length up to MaxNameLen, or was denied.
NameInputs ==
    { Host(2, <<25, 4 * MB, 16 * MB>>, <<20, GB \div 5, GB>>,
           << Proc(1, nm, HiRss) >>) :
        nm \in {NameOfLen(n) : n \in 0..MaxNameLen} \cup {NoneName} }

\* Byte counts on and around whole megabytes and gigabytes.
MemSamples == {0, MB - 1, MB, MB + MB \div 2, 2 * MB - 1, 7 * MB + 1}
DiskSamples == {0, GB \div 2 - 1, GB \div 2, GB - 1, GB, GB + 1}

SizeInputs ==
    { Host(3, <<50, mu, mt>>, <<50, du, dt>>, << Proc(1, NameOfLen(3), rss) >>) :
        mu \in MemSamples, mt \in {7 * MB + 1, 16 * MB},
        du \in DiskSamples, dt \in {GB + 1, GB + 5}, rss \in MemSamples }

Inputs == OSStates \cup RankInputs \cup NameInputs \cup SizeInputs

(***************************************************************************)
(* The callbacks.                                                          *)
(***************************************************************************)
Sampled == snapshot.cpu # None

loop_always_free == TRUE

\* update_stats has no await: from its first line to its last no other
\* callback of the event loop runs.
loop_free == pc = "idle"

\* Lines 55-93 of update_stats: sample, rank, build the lines, assign stats.
update_stats_sample ==
    LET processes == sorted_reverse(os.procs)
        failure == LoopError(Top(processes))
    IN  /\ snapshot' = os
        /\ IF failure # NoError
           THEN /\ error' = failure
                /\ state' = "Stopped"
                /\ UNCHANGED <<stats, table_lines, pc>>
           ELSE /\ stats' = StatsText(os)
                /\ table_lines' = NewTableLines(table_lines, Top(processes))
                /\ pc' = "table"
                /\ UNCHANGED <<error, state>>

\* Line 94 of update_stats: assign the table; the call returns.
update_stats_return ==
    /\ state # "Stopped"
    /\ pc = "table"
    /\ table' = table_lines
    /\ pc' = "idle"
    /\ updates' = updates + 1
    /\ state' = IF state = "Starting" THEN "Running" ELSE state
    /\ UNCHANGED <<error, exit_status, timer, elapsed, timerTicks, pending, os,
                   snapshot, stats, table_lines, screen, since_key>>

on_mount_without_update ==
    /\ state = "Starting"
    /\ loop_free
    /\ ~timer
    /\ timer' = TRUE
    /\ elapsed' = 0
    /\ state' = "Running"
    /\ UNCHANGED <<error, exit_status, timerTicks, updates, pc, pending, os,
                   snapshot, stats, table, table_lines, screen, since_key>>

on_mount ==
    /\ state = "Starting"
    /\ loop_free
    /\ ~timer
    /\ timer' = TRUE
    /\ elapsed' = 0
    /\ update_stats_sample
    /\ UNCHANGED <<exit_status, timerTicks, updates, pending, os, table, screen, since_key>>

\* The interval timer fires and calls update_stats.
timer_tick ==
    /\ state = "Running"
    /\ loop_free
    /\ timer
    /\ elapsed = Interval
    /\ timerTicks < MaxTicks
    /\ elapsed' = 0
    /\ timerTicks' = timerTicks + 1
    /\ since_key' = IF pending # NoKey THEN since_key + 1 ELSE since_key
    /\ update_stats_sample
    /\ UNCHANGED <<exit_status, timer, updates, pending, os, table, screen>>

\* A second passes.  Queued work (a key, a due timer) is done first.
advance ==
    /\ state = "Running"
    /\ loop_free
    /\ pending = NoKey
    /\ elapsed < Interval
    /\ elapsed' = elapsed + 1
    /\ UNCHANGED <<state, error, exit_status, timer, timerTicks, updates, pc,
                   pending, os, snapshot, stats, table, table_lines, screen, since_key>>

Keys == {"q", "x"}

\* The terminal driver queues a key; it does so whatever the event loop is doing.
key_press(key) ==
    /\ state # "Stopped"
    /\ pending = NoKey
    /\ pending' = key
    /\ since_key' = 0
    /\ UNCHANGED <<state, error, exit_status, timer, elapsed, timerTicks, updates,
                   pc, os, snapshot, stats, table, table_lines, screen>>

\* The application takes the key from its queue and runs the bound action.
handle_key ==
    /\ state = "Running"
    /\ loop_free
    /\ pending # NoKey
    /\ pending' = NoKey
    /\ state' = IF pending \in DOMAIN BINDINGS /\ BINDINGS[pending] = "quit"
                THEN "Stopped" ELSE state
    /\ UNCHANGED <<error, exit_status, timer, elapsed, timerTicks, updates, pc,
                   os, snapshot, stats, table, table_lines, screen, since_key>>

render ==
    /\ state # "Stopped"
    /\ loop_free
    /\ screen' = render_text(stats, table)
    /\ UNCHANGED <<state, error, exit_status, timer, elapsed, timerTicks, updates,
                   pc, pending, os, snapshot, stats, table, table_lines, since_key>>

\* MonitorApp().run() returns, main() returns, the interpreter exits.
main_return ==
    /\ state = "Stopped"
    /\ exit_status = NoExit
    /\ exit_status' = 0
    /\ UNCHANGED <<state, error, timer, elapsed, timerTicks, updates, pc,
                   pending, os, snapshot, stats, table, table_lines, screen, since_key>>

\* The host changes: processes start, exit, grow; memory and disk fill.
os_change ==
    /\ state # "Stopped"
    /\ os' \in OSStates \ {os}
    /\ UNCHANGED <<state, error, exit_status, timer, elapsed, timerTicks, updates,
                   pc, pending, snapshot, stats, table, table_lines, screen, since_key>>

InitApp ==
    /\ state = "Starting"
    /\ error = NoError
    /\ exit_status = NoExit
    /\ timer = FALSE
    /\ elapsed = 0
    /\ timerTicks = 0
    /\ updates = 0
    /\ pc = "idle"
    /\ pending = NoKey
    /\ snapshot = NoSnapshot
    /\ stats = EmptyText
    /\ table = EmptyText
    /\ table_lines = EmptyText
    /\ screen = EmptyText
    /\ since_key = 0

Init == InitApp /\ os \in OSStates

InitInputs == InitApp /\ os \in Inputs

NextApp ==
    \/ on_mount
    \/ update_stats_return
    \/ timer_tick
    \/ advance
    \/ \E key \in Keys : key_press(key)
    \/ handle_key
    \/ render
    \/ main_return

Next == NextApp \/ os_change

Spec == Init /\ [][Next]_vars

\* The same application on a host that stays as it is, for every input.
SpecInputs == InitInputs /\ [][NextApp]_vars

\* The event loop runs what is queued and what is due; a returning run() ends
\* the process.
Fairness ==
    /\ WF_vars(update_stats_return)
    /\ WF_vars(handle_key)
    /\ WF_vars(main_return)

FairSpec == Spec /\ Fairness

TypeOK ==
    /\ state \in {"Starting", "Running", "Stopped"}
    /\ pc \in {"idle", "table"}
    /\ elapsed \in 0..Interval
    /\ timerTicks \in 0..MaxTicks
    /\ updates \in 0..(MaxTicks + 1)
    /\ pending \in Keys \cup {NoKey}
    /\ exit_status \in {NoExit, 0}

(***************************************************************************)
(* Reading the display back.                                               *)
(***************************************************************************)
\* The data rows of a table text: what follows title, column row and divider.
DataRows(t) == IF Len(t) > 3 THEN SubSeq(t, 4, Len(t)) ELSE << >>

\* The latest update_stats call ran to its last line: the widget shows it.
Completed == Sampled /\ pc = "idle" /\ error = NoError

Readable(p) == p.memory_info # None /\ p.name # NoneName

Shown(pid, rows) == \E i \in 1..Len(rows) : rows[i].pid = pid

RowIndex(pid, rows) == CHOOSE i \in 1..Len(rows) : rows[i].pid = pid

ProcOf(pid, procs) == procs[CHOOSE i \in 1..Len(procs) : procs[i].pid = pid]

(***************************************************************************)
(* C1: the table never holds more than 5 data rows, its rows are in        *)
(* non-increasing order of memory, and once an update has completed every  *)
(* row is a sampled process whose resident memory is at least that of the  *)
(* row below it and of every sampled process that is not shown.            *)
(***************************************************************************)
C1_TopFiveDescending ==
    LET rows == DataRows(table)
        procs == snapshot.procs
    IN  /\ Len(rows) <= 5
        /\ \A i \in 1..(Len(rows) - 1) : rows[i].mem_mb >= rows[i + 1].mem_mb
        /\ Completed =>
            /\ \A i \in 1..Len(rows) :
                  \E k \in 1..Len(procs) :
                     procs[k].pid = rows[i].pid /\ procs[k].memory_info # None
            /\ \A i \in 1..(Len(rows) - 1) :
                  ProcOf(rows[i].pid, procs).memory_info
                     >= ProcOf(rows[i + 1].pid, procs).memory_info
            /\ \A k \in 1..Len(procs) :
                  (~Shown(procs[k].pid, rows) /\ procs[k].memory_info # None) =>
                     \A i \in 1..Len(rows) :
                        ProcOf(rows[i].pid, procs).memory_info
                           >= procs[k].memory_info

C1_Witness ==
    /\ Completed
    /\ Len(snapshot.procs) > 5
    /\ Len(DataRows(table)) = 5
    /\ \E a, b \in 1..Len(snapshot.procs) :
          /\ a < b
          /\ snapshot.procs[a].memory_info # None
          /\ snapshot.procs[a].memory_info < snapshot.procs[b].memory_info
          /\ ~Shown(snapshot.procs[a].pid, DataRows(table))
          /\ Shown(snapshot.procs[b].pid, DataRows(table))

(***************************************************************************)
(* C2: of two sampled processes with equal resident memory the one         *)
(* enumerated first is ranked first: if the later one is shown, so is the  *)
(* earlier one, in a row above it.  Memories 500, 300, 300, 100, 50 MB are *)
(* listed in the order given.                                              *)
(***************************************************************************)
C2_TiesKeepEnumerationOrder ==
    LET rows == DataRows(table)
        procs == snapshot.procs
    IN  Completed =>
        /\ \A a, b \in 1..Len(procs) :
              ( /\ a < b
                /\ procs[a].memory_info # None
                /\ procs[a].memory_info = procs[b].memory_info
                /\ Shown(procs[b].pid, rows) ) =>
                 /\ Shown(procs[a].pid, rows)
                 /\ RowIndex(procs[a].pid, rows) < RowIndex(procs[b].pid, rows)
        /\ [i \in 1..Len(procs) |-> procs[i].memory_info]
              = <<524288000, 314572800, 314572800, 104857600, 52428800>> =>
                 [i \in 1..Len(rows) |-> rows[i].pid]
                    = [i \in 1..Len(procs) |-> procs[i].pid]

C2_Witness ==
    /\ Completed
    /\ [i \in 1..Len(snapshot.procs) |-> snapshot.procs[i].memory_info]
          = <<524288000, 314572800, 314572800, 104857600, 52428800>>
    /\ [i \in 1..Len(DataRows(table)) |-> DataRows(table)[i].mem_mb]
          = <<500, 300, 300, 100, 50>>

(***************************************************************************)
(* C3: the name shown in a row is at most 24 characters long; a name of    *)
(* more than 24 characters is shown as its first 21 characters followed by *)
(* "...", a name of 24 characters or fewer is shown unchanged (the cell is *)
(* then filled with blanks to the column width).                           *)
(***************************************************************************)
C3_NameTruncation ==
    LET rows == DataRows(table)
    IN  /\ \A i \in 1..Len(rows) : Len(rows[i].name) <= 24
        /\ Completed =>
            \A i \in 1..Len(rows) :
               LET source == ProcOf(rows[i].pid, snapshot.procs).name
                   shown == rows[i].name
               IN  IF Len(source) > 24
                   THEN shown = SubSeq(source, 1, 21) \o <<".", ".", ".">>
                   ELSE /\ SubSeq(shown, 1, Len(source)) = source
                        /\ \A k \in (Len(source) + 1)..Len(shown) : shown[k] = " "

C3_Witness ==
    /\ Completed
    /\ \E i \in 1..Len(DataRows(table)) :
          /\ Len(ProcOf(DataRows(table)[i].pid, snapshot.procs).name) = 30
          /\ Len(DataRows(table)[i].name) = 24
          /\ DataRows(table)[i].name[22] = "."

(***************************************************************************)
(* C4: update_stats raises no error, whatever the processes it samples: a  *)
(* process whose details cannot be read is left out and both texts are     *)
(* assigned.                                                               *)
(***************************************************************************)
C4_NeverFails ==
    /\ error = NoError
    /\ (Sampled /\ pc = "idle") =>
          /\ stats # EmptyText
          /\ table # EmptyText
          /\ \A i \in 1..Len(DataRows(table)) :
                \E k \in 1..Len(snapshot.procs) :
                   /\ snapshot.procs[k].pid = DataRows(table)[i].pid
                   /\ Readable(snapshot.procs[k])

(***************************************************************************)
(* C5: when exactly one of the five top-ranked sampled processes cannot be *)
(* read, no error is raised and the completed table holds exactly four     *)
(* rows: the other four, in ranked order.                                  *)
(***************************************************************************)
C5_OneFailureFourRows ==
    LET ranked == sorted_reverse(snapshot.procs)
        top == Top(ranked)
        others == SelectSeq(top, Readable)
    IN  ( /\ Sampled
          /\ Len(top) = 5
          /\ Len(others) = 4 ) =>
            /\ error = NoError
            /\ pc = "idle" =>
                  [i \in 1..Len(DataRows(table)) |-> DataRows(table)[i].pid]
                     = [i \in 1..4 |-> others[i].pid]

(***************************************************************************)
(* C7: on startup one update completes before the first timer tick, though *)
(* the timer is registered first: while no tick has run a running          *)
(* application has completed exactly one update, every tick is preceded by *)
(* a completed update, and a running application never shows empty texts.  *)
(***************************************************************************)
C7_InitialUpdateFirst ==
    /\ (state = "Running" /\ timerTicks = 0) => updates = 1
    /\ timerTicks > 0 => updates >= 1
    /\ state = "Running" => (stats # EmptyText /\ table # EmptyText)
    /\ (state = "Starting" /\ pc = "table") => (timer /\ timerTicks = 0)

C7_Witness ==
    /\ state = "Running"
    /\ timerTicks = 1
    /\ updates = 2
    /\ pc = "idle"

(***************************************************************************)
(* C8: what is rendered is never the stats of one sample with the table of *)
(* another: the rendered text is empty, or its three stats lines and its   *)
(* data rows are those of one and the same host state.                     *)
(***************************************************************************)
C8_RenderedFromOneSnapshot ==
    \/ screen = EmptyText
    \/ screen = <<[kind |-> "blank"]>>
    \/ \E o \in OSStates :
          /\ Len(screen) = 7 + (IF Len(o.procs) < 5 THEN Len(o.procs) ELSE 5)
          /\ screen[1].kind = "cpu" /\ screen[1].percent = o.cpu
          /\ screen[2].kind = "memory" /\ screen[2].percent = o.mem.percent
          /\ screen[3].kind = "disk" /\ screen[3].percent = o.disk.percent
          /\ screen[4].kind = "blank"
          /\ \A i \in 8..Len(screen) :
                /\ screen[i].kind = "row"
                /\ \E k \in 1..Len(o.procs) : o.procs[k].pid = screen[i].pid

C8_Witness ==
    /\ pc = "table"
    /\ updates >= 1
    /\ Len(screen) > 1
    /\ stats[1].percent = snapshot.cpu
    /\ \E i \in 1..Len(DataRows(table)) :
          \A k \in 1..Len(snapshot.procs) :
             snapshot.procs[k].pid # DataRows(table)[i].pid

(***************************************************************************)
(* C9: the stats text is three lines (CPU, Memory, Disk), the table text   *)
(* is title, column row, divider and at most 5 data rows, and after a      *)
(* completed update all of it comes from the latest sample: no row of an   *)
(* earlier tick is left.                                                   *)
(***************************************************************************)
C9_FullReplace ==
    /\ stats # EmptyText =>
          /\ Len(stats) = 3
          /\ stats[1].kind = "cpu" /\ stats[2].kind = "memory"
          /\ stats[3].kind = "disk"
    /\ table # EmptyText =>
          /\ Len(table) >= 3 /\ Len(table) <= 3 + 5
          /\ table[1].kind = "title" /\ table[2].kind = "columns"
          /\ table[3].kind = "divider"
          /\ \A i \in 4..Len(table) : table[i].kind = "row"
    /\ Completed =>
          /\ stats # EmptyText /\ table # EmptyText
          /\ stats[1].percent = snapshot.cpu
          /\ stats[2].percent = snapshot.mem.percent
          /\ stats[3].percent = snapshot.disk.percent
          /\ \A i \in 4..Len(table) :
                \E k \in 1..Len(snapshot.procs) :
                   snapshot.procs[k].pid = table[i].pid
          /\ \A i, j \in 4..Len(table) : table[i].pid = table[j].pid => i = j

C9_Witness ==
    /\ Completed
    /\ updates = 3
    /\ Len(table) = 5
    /\ Len(screen) = 12
    /\ screen[1].percent # stats[1].percent

(***************************************************************************)
(* C10: sizes are floored, not rounded: the megabytes of the Memory line   *)
(* and of every row and the gigabytes of the Disk line are the whole units *)
(* contained in the sampled byte count, the remainder being less than one  *)
(* unit.                                                                   *)
(***************************************************************************)
C10_SizesFloored ==
    Completed =>
       /\ snapshot.mem.used - stats[2].used * 1048576 \in 0..1048575
       /\ snapshot.mem.total - stats[2].total * 1048576 \in 0..1048575
       /\ snapshot.disk.used - stats[3].used * 1073741824 \in 0..1073741823
       /\ snapshot.disk.total - stats[3].total * 1073741824 \in 0..1073741823
       /\ \A i \in 1..Len(DataRows(table)) :
             ProcOf(DataRows(table)[i].pid, snapshot.procs).memory_info
                - DataRows(table)[i].mem_mb * 1048576 \in 0..1048575

C10_Witness ==
    /\ Completed
    /\ snapshot.mem.used = 2 * 1048576 - 1 /\ stats[2].used = 1
    /\ snapshot.disk.used = 1073741824 - 1 /\ stats[3].used = 0
    /\ snapshot.procs[1].memory_info = 1048576 - 1
    /\ DataRows(table)[1].mem_mb = 0

(***************************************************************************)
(* C6: once q is queued in a running application the application stops and *)
(* the process exits with status 0; at most one timer tick starts between  *)
(* the key press and the stop; a stopped application runs no tick, changes *)
(* no text, and the only status the process exits with is 0.               *)
(***************************************************************************)
C6_QuitStops ==
    /\ ((state = "Running" /\ pending = "q")
           ~> (state = "Stopped" /\ exit_status = 0))
    /\ [](pending = "q" => since_key <= 1)
    /\ [](exit_status # NoExit => (state = "Stopped" /\ exit_status = 0))
    /\ [][state = "Stopped" =>
            UNCHANGED <<state, timerTicks, updates, stats, table, screen>>]_vars

C6_Witness ==
    /\ state = "Stopped"
    /\ error = NoError
    /\ exit_status = 0
    /\ since_key = 1
    /\ updates = 2

====
